---- MODULE Spec2Model ----
(***************************************************************************)
(* Belief divergence metrics (habitat_llm/world_model/belief_divergence.py)*)
(* and the planner hook that routes on them                                *)
(* (habitat_llm/planner/belief_hooks.py).                                  *)
(*                                                                         *)
(* Numbers of belief_hooks.py.  The integer n stands for the float n / 32.  *)
(* The bundles hold multiples of 1/8 and the configurations multiples of   *)
(* 1/4, all of them floats on which x * 1.5 and every comparison are exact.*)
(* The one float of the code that is no multiple of 1/8 is the default     *)
(* divergence_threshold 0.3: it is the 10 (between 1/4 and 3/8, as 0.3 is),*)
(* and 0.3 * 1.5 (the float 0.44999999999999996) is the 15 (between 3/8    *)
(* and 1/2), so that each compares with every other number of the model as *)
(* the float does.                                                         *)
(*                                                                         *)
(* Python values.  A value that the code tests for truthiness (x or y) or  *)
(* for None carries its Python type: [py |-> "None"], [py |-> "float", v], *)
(* [py |-> "str", v], [py |-> "dict", v].  A dict is a function from its   *)
(* keys to its values; d.get(k, default) is Get(d, k, default).            *)
(***************************************************************************)
EXTENDS Integers, Sequences, FiniteSets, Bags, TLC

VARIABLES
    decision_conf,   \* choose_belief_action's first argument
    metrics,         \* the BeliefMetrics bundle
    result,          \* what the call returned (or the exception it ended in)
    robot_graph,     \* compute_belief_divergence's first argument
    human_graph,     \* compute_belief_divergence's second argument
    divergence,      \* the dict compute_belief_divergence returned
    pc               \* "ready" before the call, "done" after it

vars == <<decision_conf, metrics, result, robot_graph, human_graph, divergence, pc>>

----------------------------------------------------------------------------
(* Bounds of the model *)

\* configured divergence thresholds range over 1/4 .. MaxThr * 1/4
MaxThr == 2
\* belief_divergence ranges over 0 .. MaxDiv * 1/8
MaxDiv == 6
\* avg_concept_confidence and its threshold range over 0 .. MaxConf * 1/4
MaxConf == 2
\* a configuration holds at most MaxOptions top-level options
MaxOptions == 2
\* graphs compared on their node types hold at most MaxTypedNodes nodes
MaxTypedNodes == 3
\* graphs compared on confidences draw their nodes from the first MaxNames names
\* and hold at most MaxNodes of them; graphs compared on relations hold the
\* first MaxNodes names or fewer and at most MaxEdges edges
MaxNames == 3
MaxNodes == 2
MaxEdges == 2

----------------------------------------------------------------------------
(* Python values *)

PyNone == [py |-> "None"]
PyFloat(n) == [py |-> "float", v |-> n]
PyStr(s) == [py |-> "str", v |-> s]
PyDict(d) == [py |-> "dict", v |-> d]
EmptyDict == PyDict([k \in {} |-> 0])

\* bool(x)
Truthy(x) ==
    CASE x.py = "None" -> FALSE
      [] x.py = "float" -> x.v # 0
      [] x.py = "str" -> x.v # ""
      [] x.py = "dict" -> DOMAIN x.v # {}

\* x or y
Or(x, y) == IF Truthy(x) THEN x ELSE y

\* d.get(k, default) on a dict
Get(d, k, default) == IF k \in DOMAIN d.v THEN d.v[k] ELSE default

\* round(x * 100) of the float n stands for, ties to even: 0.3 and 0.3 * 1.5
\* round to 30 and 45, n / 32 rounds as 25 * n / 8 does
Hundredths(n) ==
    IF n = 10 THEN 30
    ELSE IF n = 15 THEN 45
    ELSE LET q == (25 * n) \div 8
             r == (25 * n) % 8
         IN IF r > 4 \/ (r = 4 /\ q % 2 = 1) THEN q + 1 ELSE q

\* f"{x:.2f}": <<integer part, the two decimals>>
Fmt2(n) == <<Hundredths(n) \div 100, Hundredths(n) % 100>>

----------------------------------------------------------------------------
(* BeliefMetrics defaults and choose_belief_action's defaults *)

DefaultAvgConceptConfidence == 32
DefaultBeliefDivergence == 0
DefaultDivergenceThreshold == 10
DefaultConfidenceThreshold == 16

BeliefMetrics(conf, div, metric, note) ==
    [avg_concept_confidence |-> conf,
     belief_divergence |-> div,
     divergence_metric |-> metric,
     note |-> note]

\* x * 1.5
TimesOneAndHalf(x) == (x * 3) \div 2

----------------------------------------------------------------------------
(* choose_belief_action: the resolution of thresholds and flags *)

div_threshold(conf) == Get(conf, "divergence_threshold", DefaultDivergenceThreshold)

\* a variant of the definition that follows
correction_threshold_from_stock_default(conf) ==
    Get(conf, "correction_divergence_threshold",
        TimesOneAndHalf(DefaultDivergenceThreshold))
correction_threshold(conf) ==
    Get(conf, "correction_divergence_threshold", TimesOneAndHalf(div_threshold(conf)))

confidence_threshold(conf) ==
    Get(conf, "concept_confidence_threshold", DefaultConfidenceThreshold)

\* a variant of the definition that follows
cbwm_enabled_without_alias(conf) == Get(conf, "enable_cbwm", TRUE)
cbwm_enabled(conf) == Get(conf, "enable_cbwm", Get(conf, "cbwm_enabled", TRUE))

\* a variant of the definition that follows
l2d_conf_without_or(conf) == Get(conf, "l2d_action", EmptyDict)
l2d_conf(conf) == Or(Get(conf, "l2d_action", EmptyDict), EmptyDict)

\* a variant of the definition that follows
l2d_enabled_never(l2d) == FALSE
l2d_enabled(l2d) == Get(l2d, "enable", FALSE)

l2d_threshold(conf, l2d) == Get(l2d, "divergence_threshold", div_threshold(conf))

l2d_action(l2d) == Get(l2d, "action", "ListenToDisambiguate")

divergence_value(m) == Or(m.belief_divergence, PyFloat(DefaultBeliefDivergence)).v

divergence_metric(m) == Or(m.divergence_metric, PyStr("belief_divergence")).v

----------------------------------------------------------------------------
(* choose_belief_action: what a call ends in *)

Return(action, reason) == [raised |-> "", action |-> action, reason |-> reason]
Raise(exception) ==
    [raised |-> exception, action |-> PyNone,
     reason |-> [text |-> "", metric |-> "", args |-> <<>>]]

\* a reason that is a plain string
Plain(s) == [text |-> s, metric |-> "", args |-> <<>>]

\* the four reason templates, the formatted fields left as {}
CorrectionText == "Belief divergence ({}) {} exceeds correction threshold {}."
LowConfidenceText == "Average concept confidence {} is below threshold {}."
L2DText == "Belief divergence ({}) {} exceeds L2D threshold {}."
HighDivergenceText == "Belief divergence ({}) {} exceeds threshold {}."

\* a variant of the definition that follows
no_config_with_note(m) == Return(PyNone, Plain(m.note))
no_config(m) == Return(PyNone, Plain(""))

correction(conf, m) ==
    Return(PyStr(Get(conf, "correction_action", "CorrectHuman")),
           [text |-> CorrectionText,
            metric |-> divergence_metric(m),
            args |-> <<Fmt2(divergence_value(m)), Fmt2(correction_threshold(conf))>>])

low_confidence(conf, m) ==
    Return(PyStr(Get(conf, "low_confidence_action", "AppendObservation")),
           [text |-> LowConfidenceText,
            metric |-> "",
            args |-> <<Fmt2(m.avg_concept_confidence), Fmt2(confidence_threshold(conf))>>])

listen_to_disambiguate(conf, l2d, m) ==
    Return(PyStr(l2d_action(l2d)),
           [text |-> L2DText,
            metric |-> divergence_metric(m),
            args |-> <<Fmt2(divergence_value(m)), Fmt2(l2d_threshold(conf, l2d))>>])

high_divergence(conf, m) ==
    Return(PyStr(Get(conf, "high_divergence_action", "AskHuman")),
           [text |-> HighDivergenceText,
            metric |-> divergence_metric(m),
            args |-> <<Fmt2(divergence_value(m)), Fmt2(div_threshold(conf))>>])

\* a variant of the definition that follows
low_confidence_hit_inclusive(conf, m) ==
    cbwm_enabled(conf) /\ m.avg_concept_confidence <= confidence_threshold(conf)
low_confidence_hit(conf, m) ==
    cbwm_enabled(conf) /\ m.avg_concept_confidence < confidence_threshold(conf)

\* a variant of the definition that follows
choose_belief_action_confidence_first(conf, m) ==
    IF conf.py = "None" THEN no_config(m)
    ELSE LET l2d == l2d_conf(conf) IN
    IF l2d.py # "dict" THEN Raise("AttributeError")
    ELSE IF low_confidence_hit(conf, m) THEN low_confidence(conf, m)
    ELSE IF divergence_value(m) >= correction_threshold(conf) THEN correction(conf, m)
    ELSE IF l2d_enabled(l2d) /\ divergence_value(m) >= l2d_threshold(conf, l2d)
        THEN listen_to_disambiguate(conf, l2d, m)
    ELSE IF divergence_value(m) >= div_threshold(conf) THEN high_divergence(conf, m)
    ELSE Return(PyNone, Plain(m.note))

choose_belief_action(conf, m) ==
    IF conf.py = "None" THEN no_config(m)
    ELSE LET l2d == l2d_conf(conf) IN
    \* l2d_conf.get on a value that is no dict
    IF l2d.py # "dict" THEN Raise("AttributeError")
    ELSE IF divergence_value(m) >= correction_threshold(conf) THEN correction(conf, m)
    ELSE IF low_confidence_hit(conf, m) THEN low_confidence(conf, m)
    ELSE IF l2d_enabled(l2d) /\ divergence_value(m) >= l2d_threshold(conf, l2d)
        THEN listen_to_disambiguate(conf, l2d, m)
    ELSE IF divergence_value(m) >= div_threshold(conf) THEN high_divergence(conf, m)
    ELSE Return(PyNone, Plain(m.note))

----------------------------------------------------------------------------
(* Floats of belief_divergence.py.  A node's confidence is a multiple of 0.05,
   the integer n standing for n * 0.05 (0.4 is 8, 0.9 is 18, 1.0 is 20).  A
   probability, a confidence gap and a consistency are the exact rationals
   <<n, d>> in lowest terms that the code's floats approximate.  math.log has no
   closed form here: p * log((p + eps) / (q + eps)) is kept as the term it is,
   a sum of terms as the sequence of its summands in the order the loop adds
   them, and a + b (commutative in IEEE arithmetic) as the bag of a and b. *)

RECURSIVE GCD(_, _)
GCD(a, b) == IF b = 0 THEN a ELSE GCD(b, a % b)

\* n / d
Ratio(n, d) == LET g == GCD(n, d) IN <<n \div g, d \div g>>

RatAdd(x, y) == Ratio(x[1] * y[2] + y[1] * x[2], x[2] * y[2])
RatHalf(x) == Ratio(x[1], 2 * x[2])
RatZero == <<0, 1>>
RatOne == <<1, 1>>
FloatZero == EmptyBag

Abs(x) == IF x < 0 THEN -x ELSE x

RECURSIVE Sum(_, _)
Sum(f, S) == IF S = {} THEN 0 ELSE LET x == CHOOSE y \in S : TRUE IN f[x] + Sum(f, S \ {x})

Range(list) == {list[i] : i \in DOMAIN list}

----------------------------------------------------------------------------
(* A WorldGraph as the code reads it: graph.graph maps each node to its
   neighbors and their edge labels.  A graph is the sequence of its nodes in
   insertion order, each a name, a dict of properties and a dict from
   neighbor names to labels. *)

NoItems == [k \in {} |-> 0]
Node(name, properties, neighbors) ==
    [name |-> name, properties |-> properties, neighbors |-> neighbors]

\* properties.get(key, default)
Property(node, key, default) ==
    IF key \in DOMAIN node.properties THEN node.properties[key] ELSE default

RECURSIVE FirstOccurrences(_)
FirstOccurrences(list) ==
    IF list = <<>> THEN <<>>
    ELSE LET front == FirstOccurrences(SubSeq(list, 1, Len(list) - 1))
             last == list[Len(list)]
         IN IF last \in Range(front) THEN front ELSE Append(front, last)

\* Counter(list): the keys in the order they first occur, and their counts
Counter(list) ==
    [keys |-> FirstOccurrences(list),
     at |-> [k \in Range(list) |-> Cardinality({i \in DOMAIN list : list[i] = k})]]

_distribution_from_counter(counter) ==
    LET total == Sum(counter.at, DOMAIN counter.at) IN
    IF total = 0 THEN [keys |-> <<>>, at |-> NoItems]
    ELSE [keys |-> counter.keys,
          at |-> [k \in DOMAIN counter.at |-> Ratio(counter.at[k], total)]]

Eps == <<1, 1000000000>>

\* p_val * math.log((p_val + eps) / (q_val + eps))
LogTerm(p_val, q_val) ==
    [times |-> p_val, log_of |-> [num |-> <<p_val, Eps>>, den |-> <<q_val, Eps>>]]

\* q is a dict read only through q.get
_kl_divergence(p, q) ==
    [i \in 1..Len(p.keys) |->
        LET key == p.keys[i] IN
        LogTerm(p.at[key], IF key \in DOMAIN q THEN q[key] ELSE Eps)]

\* 0.5 * a + 0.5 * b
HalfSum(a, b) == SetToBag({[half_of |-> a]}) (+) SetToBag({[half_of |-> b]})

\* {key: 0.5 * (p.get(key, 0.0) + q.get(key, 0.0)) for key in all_keys}
Midpoint(p, q) ==
    [key \in DOMAIN p.at \cup DOMAIN q.at |->
        RatHalf(RatAdd(IF key \in DOMAIN p.at THEN p.at[key] ELSE RatZero,
                       IF key \in DOMAIN q.at THEN q.at[key] ELSE RatZero))]

\* a variant of the definition that follows
_jensen_shannon_against_q(p, q) ==
    IF p.keys = <<>> /\ q.keys = <<>> THEN FloatZero
    ELSE HalfSum(_kl_divergence(p, q.at), _kl_divergence(q, Midpoint(p, q)))
_jensen_shannon(p, q) ==
    IF p.keys = <<>> /\ q.keys = <<>> THEN FloatZero
    ELSE LET m == Midpoint(p, q) IN HalfSum(_kl_divergence(p, m), _kl_divergence(q, m))

DefaultNodeConfidence == 20
MissingEntityConfidence == 0

\* {node.name: node.properties.get("confidence", 1.0) for node in graph.graph}
Confidences(graph) ==
    [name \in {graph[i].name : i \in DOMAIN graph} |->
        LET i == CHOOSE j \in DOMAIN graph :
                    graph[j].name = name
                    /\ \A k \in DOMAIN graph : graph[k].name = name => k <= j
        IN Property(graph[i], "confidence", DefaultNodeConfidence)]

\* conf.get(ent, 0.0)
ConfidenceOf(conf, ent) == IF ent \in DOMAIN conf THEN conf[ent] ELSE MissingEntityConfidence

\* a variant of the definition that follows
_entity_confidence_gap_shared_only(robot, human) ==
    LET robot_conf == Confidences(robot)
        human_conf == Confidences(human)
        all_entities == DOMAIN robot_conf \cap DOMAIN human_conf
        gap == [ent \in all_entities |->
                  Abs(ConfidenceOf(robot_conf, ent) - ConfidenceOf(human_conf, ent))]
    IN IF all_entities = {} THEN RatZero
       ELSE Ratio(Sum(gap, all_entities), 20 * Cardinality(all_entities))
_entity_confidence_gap(robot, human) ==
    LET robot_conf == Confidences(robot)
        human_conf == Confidences(human)
        all_entities == DOMAIN robot_conf \cup DOMAIN human_conf
        gap == [ent \in all_entities |->
                  Abs(ConfidenceOf(robot_conf, ent) - ConfidenceOf(human_conf, ent))]
    IN IF all_entities = {} THEN RatZero
       ELSE Ratio(Sum(gap, all_entities), 20 * Cardinality(all_entities))

\* a variant of the definition that follows
_edges_without_label(graph) ==
    UNION {{<<graph[i].name, neighbor, "">> :
                neighbor \in DOMAIN graph[i].neighbors} : i \in DOMAIN graph}
\* set(_edges(graph))
_edges(graph) ==
    UNION {{<<graph[i].name, neighbor, graph[i].neighbors[neighbor]>> :
                neighbor \in DOMAIN graph[i].neighbors} : i \in DOMAIN graph}

_relation_consistency(robot, human) ==
    LET robot_edges == _edges(robot)
        human_edges == _edges(human)
    IN IF robot_edges = {} /\ human_edges = {} THEN RatOne
       ELSE IF robot_edges = {} \/ human_edges = {} THEN RatZero
       ELSE Ratio(Cardinality(robot_edges \cap human_edges),
                  Cardinality(robot_edges \cup human_edges))

\* [node.properties.get("type", "unknown") for node in graph.graph]
Types(graph) == [i \in DOMAIN graph |-> Property(graph[i], "type", "unknown")]

compute_belief_divergence(robot, human) ==
    LET robot_distribution == _distribution_from_counter(Counter(Types(robot)))
        human_distribution == _distribution_from_counter(Counter(Types(human)))
    IN [concept_js_divergence |-> _jensen_shannon(robot_distribution, human_distribution),
        entity_confidence_gap |-> _entity_confidence_gap(robot, human),
        relation_consistency |-> _relation_consistency(robot, human)]

----------------------------------------------------------------------------
(* The inputs of choose_belief_action *)

Thresholds == {8 * k : k \in 1..MaxThr}
DivergenceLevels == {4 * k : k \in 0..MaxDiv}
ConfidenceLevels == {8 * k : k \in 0..MaxConf}
ConfidenceThresholds == ConfidenceLevels \ {0}

\* an option that is absent ({}) or set to one of vals ({v})
Opt(vals) == {{}} \cup {{v} : v \in vals}

\* the dict of the options that are set
Items(rec) == [k \in {f \in DOMAIN rec : rec[f] # {}} |-> CHOOSE v \in rec[k] : TRUE]

L2DConfigs ==
    {PyDict(Items(r)) :
        r \in [enable : Opt(BOOLEAN),
               divergence_threshold : Opt(Thresholds),
               action : Opt({"Listen"})]}

DecisionConfigs ==
    {PyNone} \cup
    {PyDict(Items(r)) :
        r \in {s \in [divergence_threshold : Opt(Thresholds),
                      correction_divergence_threshold : Opt(Thresholds),
                      concept_confidence_threshold : Opt(ConfidenceThresholds),
                      enable_cbwm : Opt(BOOLEAN),
                      cbwm_enabled : Opt(BOOLEAN),
                      l2d_action : Opt({PyNone} \cup L2DConfigs),
                      correction_action : Opt({"Correct"}),
                      low_confidence_action : Opt({"Observe"}),
                      high_divergence_action : Opt({"Ask"}),
                      log_level : Opt({"debug"})] :
                Cardinality({f \in DOMAIN s : s[f] # {}}) <= MaxOptions}}

MetricsBundles ==
    {BeliefMetrics(c, d, n[1], n[2]) :
        c \in ConfidenceLevels,
        d \in {PyNone} \cup {PyFloat(v) : v \in DivergenceLevels},
        n \in {<<PyStr("concept_js_divergence"), "">>,
               <<PyStr(""), "keep the plan">>,
               <<PyStr("belief_divergence"), "">>}}

NoResult == Return(PyNone, Plain(""))

\* BeliefMetrics()
DefaultBundle ==
    BeliefMetrics(DefaultAvgConceptConfidence, PyFloat(DefaultBeliefDivergence),
                  PyStr("belief_divergence"), "")

----------------------------------------------------------------------------
(* The inputs of compute_belief_divergence *)

NodeNames == <<"house", "robot_obj", "human_obj", "table", "shelf", "cup">>
NodeTypes == {"root", "object"}
\* 0.0, 0.4, 0.9
NodeConfidences == {0, 8, 18}
EdgeLabels == {"contains", "in"}

EmptyGraph == <<>>
NoDivergence == compute_belief_divergence(EmptyGraph, EmptyGraph)

\* the members of a set of indices, in increasing order
RECURSIVE Ascending(_)
Ascending(I) ==
    IF I = {} THEN <<>>
    ELSE LET least == CHOOSE i \in I : \A j \in I : i <= j
         IN <<least>> \o Ascending(I \ {least})

\* graphs that differ in the types of their nodes
TypedGraphs ==
    UNION {{[i \in 1..n |-> Node(NodeNames[i], Items([type |-> t[i]]), NoItems)] :
                t \in [1..n -> Opt(NodeTypes)]} : n \in 0..MaxTypedNodes}

NodeSets == {I \in SUBSET (1..MaxNames) : Cardinality(I) <= MaxNodes}

\* graphs that differ in their nodes and in the confidence of each
ConfidenceGraphs ==
    UNION {{[k \in 1..Cardinality(I) |->
                Node(NodeNames[Ascending(I)[k]],
                     Items([confidence |-> c[Ascending(I)[k]]]), NoItems)] :
                c \in [I -> Opt(NodeConfidences)]} : I \in NodeSets}

\* graphs that differ in their nodes and in the labelled edges between them
RelationGraphs ==
    UNION {UNION {{[k \in 1..Cardinality(I) |->
                      LET i == Ascending(I)[k] IN
                      Node(NodeNames[i], NoItems,
                           [name \in {NodeNames[e[2]] : e \in {x \in E : x[1] = i}} |->
                               label[CHOOSE e \in E : e[1] = i /\ NodeNames[e[2]] = name]])] :
                      label \in [E -> EdgeLabels]} :
                  E \in {F \in SUBSET {e \in I \X I : e[1] # e[2]} :
                            Cardinality(F) <= MaxEdges}} : I \in SUBSET (1..MaxNodes)}

----------------------------------------------------------------------------
(* The planner asks for a hook once per configuration and bundle *)

Init ==
    /\ decision_conf \in DecisionConfigs
    /\ metrics \in {DefaultBundle} \cup MetricsBundles
    /\ result = NoResult
    /\ robot_graph = EmptyGraph
    /\ human_graph = EmptyGraph
    /\ divergence = NoDivergence
    /\ pc = "ready"

Choose ==
    /\ pc = "ready"
    /\ result' = choose_belief_action(decision_conf, metrics)
    /\ pc' = "done"
    /\ UNCHANGED <<decision_conf, metrics, robot_graph, human_graph, divergence>>

Next == Choose

Spec == Init /\ [][Next]_vars

----------------------------------------------------------------------------
(* The planner compares the robot's graph with the human's once per pair *)

GraphPairs ==
    (TypedGraphs \X TypedGraphs)
        \cup (ConfidenceGraphs \X ConfidenceGraphs)
        \cup (RelationGraphs \X RelationGraphs)

DivergenceInit ==
    /\ \E pair \in GraphPairs :
          /\ robot_graph = pair[1]
          /\ human_graph = pair[2]
    /\ divergence = NoDivergence
    /\ decision_conf = PyNone
    /\ metrics = DefaultBundle
    /\ result = NoResult
    /\ pc = "ready"

Compute ==
    /\ pc = "ready"
    /\ divergence' = compute_belief_divergence(robot_graph, human_graph)
    /\ pc' = "done"
    /\ UNCHANGED <<decision_conf, metrics, result, robot_graph, human_graph>>

DivergenceNext == Compute

DivergenceSpec == DivergenceInit /\ [][DivergenceNext]_vars

----------------------------------------------------------------------------
(* Properties of choose_belief_action *)

Done == pc = "done"
Configured == decision_conf.py = "dict"
Has(k) == Configured /\ k \in DOMAIN decision_conf.v
HasValue(k, v) == Has(k) /\ decision_conf.v[k] = v

\* the tier a result came from, read off its reason
ViaCorrection == result.reason.text = CorrectionText
ViaLowConfidence == result.reason.text = LowConfidenceText
ViaL2D == result.reason.text = L2DText
ViaHighDivergence == result.reason.text = HighDivergenceText
ViaNone == ~(ViaCorrection \/ ViaLowConfidence \/ ViaL2D \/ ViaHighDivergence)

Divergence ==
    IF metrics.belief_divergence.py = "None" THEN 0 ELSE metrics.belief_divergence.v
Confidence == metrics.avg_concept_confidence

\* the conditions of the four tiers on the resolved thresholds
Tier1Holds == Divergence >= correction_threshold(decision_conf)
Tier2Holds ==
    cbwm_enabled(decision_conf) /\ Confidence < confidence_threshold(decision_conf)
Tier3Holds ==
    /\ l2d_enabled(l2d_conf(decision_conf))
    /\ Divergence >= l2d_threshold(decision_conf, l2d_conf(decision_conf))
Tier4Holds == Divergence >= div_threshold(decision_conf)

ActionIs(key, default) ==
    result.action = PyStr(IF Has(key) THEN decision_conf.v[key] ELSE default)

\* C1: with a config present, the call returns the outcome of the first tier,
\* in the order 1 to 4, whose condition holds on the resolved thresholds, and
\* (None, note) with the bundle's note verbatim when none holds.
C1_FirstMatchingTier ==
    (Done /\ Configured) =>
        /\ Tier1Holds => ViaCorrection /\ ActionIs("correction_action", "CorrectHuman")
        /\ (~Tier1Holds /\ Tier2Holds) =>
              ViaLowConfidence /\ ActionIs("low_confidence_action", "AppendObservation")
        /\ (~Tier1Holds /\ ~Tier2Holds /\ Tier3Holds) =>
              /\ ViaL2D
              /\ result.action =
                    PyStr(Get(l2d_conf(decision_conf), "action", "ListenToDisambiguate"))
        /\ (~Tier1Holds /\ ~Tier2Holds /\ ~Tier3Holds /\ Tier4Holds) =>
              ViaHighDivergence /\ ActionIs("high_divergence_action", "AskHuman")
        /\ (~Tier1Holds /\ ~Tier2Holds /\ ~Tier3Holds /\ ~Tier4Holds) =>
              result = Return(PyNone, Plain(metrics.note))

\* tier 1 won although the confidence was below its threshold too
C1_Witness ==
    /\ Done /\ Configured
    /\ Tier1Holds /\ Tier2Holds
    /\ ViaCorrection
    /\ Has("correction_action")

\* C2: a divergence equal to the resolved divergence_threshold triggers tier 4
\* whenever tiers 1 to 3 do not match, and a confidence equal to
\* concept_confidence_threshold does not trigger tier 2.
C2_BoundaryExactness ==
    (Done /\ Configured) =>
        /\ (Divergence = div_threshold(decision_conf)
              /\ ~(ViaCorrection \/ ViaLowConfidence \/ ViaL2D)) => ViaHighDivergence
        /\ Confidence = confidence_threshold(decision_conf) => ~ViaLowConfidence

\* both boundaries at once: tier 2 enabled and passed over, tier 4 taken
C2_Witness ==
    /\ Done /\ Configured
    /\ cbwm_enabled(decision_conf)
    /\ Confidence = confidence_threshold(decision_conf)
    /\ Divergence = div_threshold(decision_conf)
    /\ ViaHighDivergence

\* C3: without a config the call returns (None, "") whatever the bundle holds.
C3_NoConfigPassthrough ==
    (Done /\ ~Configured) => result = Return(PyNone, Plain(""))

C3_Witness ==
    /\ Done /\ ~Configured
    /\ metrics.note # ""
    /\ Divergence >= TimesOneAndHalf(DefaultDivergenceThreshold)
    /\ Confidence < DefaultConfidenceThreshold
    /\ result = Return(PyNone, Plain(""))

\* C4: the call never ends in an exception, for an absent config and for every
\* config holding any subset of the recognized options and unknown keys.
C4_NeverRaises == Done => result.raised = ""

\* an l2d_action that is set to None, next to a key the code does not know
C4_Witness ==
    /\ Done /\ result.raised = ""
    /\ Has("l2d_action") /\ decision_conf.v["l2d_action"].py = "None"
    /\ Has("log_level")

\* the divergence_threshold in force: the configured one, else 0.3
BaselineThreshold ==
    IF Has("divergence_threshold") THEN decision_conf.v["divergence_threshold"]
    ELSE DefaultDivergenceThreshold

\* the l2d_action mapping in force
L2D ==
    IF Has("l2d_action") /\ decision_conf.v["l2d_action"].py = "dict"
    THEN decision_conf.v["l2d_action"].v ELSE [k \in {} |-> 0]
L2DOn == "enable" \in DOMAIN L2D /\ L2D["enable"]

\* C5: tier 1 uses correction_divergence_threshold when configured and 1.5 times
\* the resolved divergence_threshold otherwise; tier 3 uses
\* l2d_action.divergence_threshold when configured and the resolved
\* divergence_threshold otherwise.
C5_DerivedDefaults ==
    (Done /\ Configured) =>
        /\ ViaCorrection <=>
              IF Has("correction_divergence_threshold")
              THEN Divergence >= decision_conf.v["correction_divergence_threshold"]
              ELSE 2 * Divergence >= 3 * BaselineThreshold
        /\ (L2DOn /\ ~ViaCorrection /\ ~ViaLowConfidence) =>
              (ViaL2D <=>
                  IF "divergence_threshold" \in DOMAIN L2D
                  THEN Divergence >= L2D["divergence_threshold"]
                  ELSE Divergence >= BaselineThreshold)

\* tier 1 taken below the stock 0.45, on 1.5 times a configured baseline
C5_Witness ==
    /\ Done /\ Has("divergence_threshold")
    /\ ~Has("correction_divergence_threshold")
    /\ Divergence < TimesOneAndHalf(DefaultDivergenceThreshold)
    /\ ViaCorrection

L2DLowerThanBaseline ==
    /\ L2DOn
    /\ "divergence_threshold" \in DOMAIN L2D
    /\ L2D["divergence_threshold"] < BaselineThreshold

\* C9 as stated: with L2D enabled on a threshold lower than the baseline, tier 3
\* is never reached.
C9_Tier3Unreachable == (Done /\ L2DLowerThanBaseline) => ~ViaL2D

\* C9: with L2D enabled on a threshold lower than the baseline
\* divergence_threshold, tier 4 is never reached, and tier 3 takes every bundle at
\* or above the L2D threshold that tiers 1 and 2 leave.
C9_Tier4Unreachable ==
    (Done /\ L2DLowerThanBaseline) =>
        /\ ~ViaHighDivergence
        /\ (Divergence >= L2D["divergence_threshold"]
              /\ ~ViaCorrection /\ ~ViaLowConfidence) => ViaL2D

\* a bundle at or above the baseline, which tier 3 took before tier 4
C9_Witness ==
    /\ Done /\ L2DLowerThanBaseline
    /\ Divergence >= BaselineThreshold
    /\ ViaL2D

\* C10 as stated: cbwm_enabled present and false disables tier 2.
C10_AliasAlwaysHonored == (Done /\ HasValue("cbwm_enabled", FALSE)) => ~ViaLowConfidence

\* the flag gating tier 2: enable_cbwm if set, else cbwm_enabled if set, else on
CbwmGate ==
    IF Has("enable_cbwm") THEN decision_conf.v["enable_cbwm"]
    ELSE IF Has("cbwm_enabled") THEN decision_conf.v["cbwm_enabled"]
    ELSE TRUE

\* C10: tier 2 is gated by enable_cbwm, which defaults to true; cbwm_enabled is
\* honored when enable_cbwm is absent: with enable_cbwm absent and cbwm_enabled
\* false no bundle gets low_confidence_action from the confidence check.
C10_AliasHonoredWhenPrimaryAbsent ==
    (Done /\ Configured) =>
        /\ ViaLowConfidence => CbwmGate
        /\ (~Has("enable_cbwm") /\ HasValue("cbwm_enabled", FALSE)) => ~ViaLowConfidence
        /\ (~Has("enable_cbwm") /\ ~Has("cbwm_enabled") /\ ~ViaCorrection
              /\ Confidence < confidence_threshold(decision_conf)) => ViaLowConfidence

\* the alias alone switches tier 2 off for a bundle tier 2 would have taken
C10_Witness ==
    /\ Done /\ ~Has("enable_cbwm") /\ HasValue("cbwm_enabled", FALSE)
    /\ Confidence < confidence_threshold(decision_conf)
    /\ ~ViaCorrection /\ ~ViaLowConfidence

----------------------------------------------------------------------------
(* Properties of compute_belief_divergence *)

NamesOf(graph) == {graph[i].name : i \in DOMAIN graph}
NodeOf(graph, name) == graph[CHOOSE i \in DOMAIN graph : graph[i].name = name]

\* the (source, target, label) triples of a graph
Triples(graph) ==
    {t \in NamesOf(graph) \X NamesOf(graph) \X EdgeLabels :
        /\ t[2] \in DOMAIN NodeOf(graph, t[1]).neighbors
        /\ NodeOf(graph, t[1]).neighbors[t[2]] = t[3]}

Consistency == divergence.relation_consistency

\* C6: relation_consistency is the Jaccard index of the two graphs' sets of
\* (source, target, label) triples: within [0, 1]; 1 on identical sets, both empty
\* included; 0 when exactly one set is empty or when both are non-empty and
\* disjoint; |intersection| / |union| otherwise, labels compared exactly.
C6_JaccardOfTriples ==
    Done =>
        LET R == Triples(robot_graph)
            H == Triples(human_graph)
        IN /\ 0 <= Consistency[1] /\ Consistency[1] <= Consistency[2]
           /\ R = H => Consistency = <<1, 1>>
           /\ ((R = {}) # (H = {})) => Consistency = <<0, 1>>
           /\ (R # {} /\ H # {} /\ R \cap H = {}) => Consistency = <<0, 1>>
           /\ (R # {} /\ H # {}) =>
                 Consistency[1] * Cardinality(R \cup H)
                     = Consistency[2] * Cardinality(R \cap H)

\* one edge shared, one ordered pair carried by both graphs under different labels
C6_Witness ==
    /\ Done
    /\ Consistency = <<1, 3>>
    /\ \E e \in Triples(robot_graph), f \in Triples(human_graph) :
          e[1] = f[1] /\ e[2] = f[2] /\ e[3] # f[3]

Gap == divergence.entity_confidence_gap

\* the confidence a graph gives an identifier, in steps of 0.05
ConfidenceIn(graph, name) ==
    IF name \notin NamesOf(graph) THEN 0
    ELSE IF "confidence" \in DOMAIN NodeOf(graph, name).properties
         THEN NodeOf(graph, name).properties["confidence"]
    ELSE 20

SingleNode(graph, confidence) ==
    Len(graph) = 1 /\ ConfidenceIn(graph, graph[1].name) = confidence

\* C7: entity_confidence_gap is the sum over the union of both graphs' node
\* identifiers of the absolute difference of the two confidences (1.0 for a node
\* without the property, 0.0 for an identifier the graph lacks) divided by the size
\* of the union, and 0.0 on an empty union; 0.9 against 0.4 gives 0.5 on one shared
\* identifier and 0.65 on two disjoint ones; an identifier that only one graph
\* holds, with non-zero confidence, makes the gap positive.
C7_MeanAbsoluteGap ==
    Done =>
        LET U == NamesOf(robot_graph) \cup NamesOf(human_graph)
            diff == [n \in U |->
                        Abs(ConfidenceIn(robot_graph, n) - ConfidenceIn(human_graph, n))]
        IN /\ U = {} => Gap = <<0, 1>>
           /\ Gap[2] > 0
           /\ Gap[1] * 20 * Cardinality(U) = Gap[2] * Sum(diff, U)
           /\ (SingleNode(robot_graph, 18) /\ SingleNode(human_graph, 8)) =>
                 Gap = IF robot_graph[1].name = human_graph[1].name
                       THEN <<1, 2>> ELSE <<13, 20>>
           /\ (\E n \in U :
                  /\ (n \in NamesOf(robot_graph)) # (n \in NamesOf(human_graph))
                  /\ diff[n] # 0) => Gap[1] > 0

\* 0.9 and 0.4 on two different identifiers
C7_Witness ==
    /\ Done
    /\ SingleNode(robot_graph, 18) /\ SingleNode(human_graph, 8)
    /\ robot_graph[1].name # human_graph[1].name
    /\ Gap = <<13, 20>>

\* C8: the concept_js_divergence of (A, B) equals that of (B, A) for all graphs,
\* empty ones included, and is 0.0 when neither graph has a node.
C8_Symmetry ==
    Done =>
        /\ divergence.concept_js_divergence
              = compute_belief_divergence(human_graph, robot_graph).concept_js_divergence
        /\ (robot_graph = <<>> /\ human_graph = <<>>) =>
              divergence.concept_js_divergence = FloatZero

\* three nodes of two types against one node of a third type
C8_Witness ==
    /\ Done
    /\ Len(robot_graph) = 3 /\ Len(human_graph) = 1
    /\ Cardinality(Range(Types(robot_graph))) = 2
    /\ Types(human_graph)[1] \notin Range(Types(robot_graph))
    /\ divergence.concept_js_divergence # FloatZero

====
